---- MODULE Spec2Model ----
(***************************************************************************)
(* A model of the bytecode back end of the Monkey compiler: package code   *)
(* (opcode table, Make, ReadOperands, Lookup, Instructions.String) and     *)
(* package compiler (New, Compile, Bytecode).                              *)
(*                                                                         *)
(* Bytes are the integers 0..255, a Go slice is a sequence, a Go int is an *)
(* integer.  A text is a sequence of tokens (its characters, or runs of    *)
(* characters that are never split); "\n" is always a token of its own.    *)
(* A call that ends in a run-time panic returns panic |-> TRUE.            *)
(***************************************************************************)
EXTENDS Integers, Sequences, FiniteSets, TLC

VARIABLES
    Definitions,   \* package code: the opcode table (a package-level map)
    call,          \* the last call of Make, ReadOperands or Lookup, with its result
    chunks,        \* how the instruction stream under scan was put together
    ins,           \* Instructions.String: the receiver
    i,             \* Instructions.String: the scan offset
    out,           \* Instructions.String: the output buffer
    pc,            \* Instructions.String: where the call stands
    compiler,      \* the Compiler instance (instructions, constants)
    program,       \* the node last given to Compile
    err,           \* what Compile returned
    bytecode       \* what Bytecode() returned

vars == <<Definitions, call, chunks, ins, i, out, pc, compiler, program, err, bytecode>>

stringVars == <<chunks, ins, i, out, pc>>
compilerVars == <<compiler, program, err, bytecode>>

-----------------------------------------------------------------------------
(* Bounds of the model.                                                    *)

\* the longest operand list given to Make
MaxOperands == 2
\* the number of pieces (instructions or raw bytes) a scanned stream is made of
MaxChunks == 3
\* the number of error lines after which a scan that does not advance is cut off
MaxErrorLines == 2
\* the nesting depth of the expressions given to Compile
MaxDepth == 3

\* operand values given to Make: inside the 2-byte range, on its edges, beyond it
OperandValues == {-1, 0, 1, 255, 258, 65535, 65536, 65537}
\* operand values of the instructions of a scanned stream
StreamValues == {0, 258, 65535, 65537}
\* raw bytes appended to a scanned stream: both opcodes and two undefined bytes
RawBytes == {0, 1, 2, 255}
\* integer literals of the programs given to Compile
IntLits == {1, 2, 3}

-----------------------------------------------------------------------------
(* Go values.                                                              *)

Byte == 0..255

\* a nil pointer, a nil error
Nil == [nil |-> TRUE]

\* the conversion uint16(o) of an int
Uint16(o) == o % 65536

\* the conversion byte(x)
ToByte(x) == x % 256

\* the slice expression s[from:], from counted from 0
SliceFrom(s, from) == SubSeq(s, from + 1, Len(s))

RECURSIVE Sum(_)
Sum(s) == IF s = <<>> THEN 0 ELSE Head(s) + Sum(Tail(s))

\* make([]T, n): n zero values
Zeros(n) == [k \in 1..n |-> 0]

-----------------------------------------------------------------------------
(* package code                                                            *)

OpConstant == 0
OpAdd == 1

\* the initial value of the package-level table
DefinitionsTable ==
    (OpConstant :> [Name |-> "OpConstant", OperandWidths |-> <<2>>]) @@
    (OpAdd :> [Name |-> "OpAdd", OperandWidths |-> <<>>])

\* binary.BigEndian.PutUint16(b, v): b with its first two bytes overwritten
PutUint16LittleEndian(b, v) ==
    IF Len(b) < 2 THEN [panic |-> TRUE, bytes |-> b]
    ELSE [panic |-> FALSE,
          bytes |-> [b EXCEPT ![1] = ToByte(v), ![2] = ToByte(v \div 256)]]

PutUint16(b, v) ==
    IF Len(b) < 2 THEN [panic |-> TRUE, bytes |-> b]
    ELSE [panic |-> FALSE,
          bytes |-> [b EXCEPT ![1] = ToByte(v \div 256), ![2] = ToByte(v)]]

\* binary.BigEndian.Uint16(b)
BigEndianUint16(b) ==
    IF Len(b) < 2 THEN [panic |-> TRUE, value |-> 0]
    ELSE [panic |-> FALSE, value |-> b[2] + b[1] * 256]

ReadUint16LowByte(b) ==
    IF Len(b) < 2 THEN [panic |-> TRUE, value |-> 0]
    ELSE [panic |-> FALSE, value |-> b[2]]

ReadUint16(b) == BigEndianUint16(b)

\* fmt's %d of an int
Digit(d) == <<"0", "1", "2", "3", "4", "5", "6", "7", "8", "9">>[d + 1]

RECURSIVE FmtNat(_)
FmtNat(n) == IF n < 10 THEN <<Digit(n)>> ELSE FmtNat(n \div 10) \o <<Digit(n % 10)>>

FmtD(n) == IF n < 0 THEN <<"-">> \o FmtNat(-n) ELSE FmtNat(n)

\* fmt's %04d of an int that is not negative
RECURSIVE ZeroPad(_, _)
ZeroPad(s, width) == IF Len(s) >= width THEN s ELSE ZeroPad(<<"0">> \o s, width)

Fmt04d(n) == ZeroPad(FmtNat(n), 4)

\* Lookup(op)
LookupNoError(op) ==
    IF op \notin DOMAIN Definitions
    THEN [def |-> Nil, err |-> Nil]
    ELSE [def |-> Definitions[op], err |-> Nil]

Lookup(op) ==
    IF op \notin DOMAIN Definitions
    THEN [def |-> Nil, err |-> [msg |-> <<"opcode ">> \o FmtD(op) \o <<" undefined">>]]
    ELSE [def |-> Definitions[op], err |-> Nil]

\* Make: the loop over the operands; k counts them from 1, offset is Go's
RECURSIVE MakeLoop(_, _, _, _, _)
MakeLoop(def, operands, k, offset, instruction) ==
    IF k > Len(operands) THEN [panic |-> FALSE, bytes |-> instruction]
    ELSE IF k > Len(def.OperandWidths)
    THEN [panic |-> TRUE, bytes |-> <<>>]
    ELSE LET width == def.OperandWidths[k]
             put == PutUint16(SliceFrom(instruction, offset), Uint16(operands[k]))
         IN  IF width = 2
             THEN IF offset > Len(instruction) \/ put.panic
                  THEN [panic |-> TRUE, bytes |-> <<>>]
                  ELSE MakeLoop(def, operands, k + 1, offset + width,
                                SubSeq(instruction, 1, offset) \o put.bytes)
             ELSE MakeLoop(def, operands, k + 1, offset + width, instruction)

\* Make(op, operands...)
Make(op, operands) ==
    IF op \notin DOMAIN Definitions THEN [panic |-> FALSE, bytes |-> <<>>]
    ELSE LET def == Definitions[op]
             instructionLen == 1 + Sum(def.OperandWidths)
             instruction == [Zeros(instructionLen) EXCEPT ![1] = ToByte(op)]
         IN  MakeLoop(def, operands, 1, 1, instruction)

\* ReadOperands: the loop over the widths
RECURSIVE ReadLoop(_, _, _, _, _)
ReadLoop(def, bytes, k, offset, operands) ==
    IF k > Len(def.OperandWidths)
    THEN [panic |-> FALSE, operands |-> operands, read |-> offset]
    ELSE LET width == def.OperandWidths[k]
             got == IF offset > Len(bytes) THEN [panic |-> TRUE, value |-> 0]
                    ELSE ReadUint16(SliceFrom(bytes, offset))
         IN  IF width = 2
             THEN IF got.panic THEN [panic |-> TRUE, operands |-> <<>>, read |-> 0]
                  ELSE ReadLoop(def, bytes, k + 1, offset + width,
                                [operands EXCEPT ![k] = got.value])
             ELSE ReadLoop(def, bytes, k + 1, offset + width, operands)

\* ReadOperands(def, ins)
ReadOperands(def, bytes) ==
    ReadLoop(def, bytes, 1, 0, Zeros(Len(def.OperandWidths)))

\* Instructions.fmtInstruction(def, operands)
fmtInstruction(def, operands) ==
    LET operandCount == Len(def.OperandWidths)
    IN  IF Len(operands) # operandCount
        THEN <<"ERROR: operand len ">> \o FmtD(Len(operands))
                 \o <<" does not match defined ">> \o FmtD(operandCount) \o <<"\n">>
        ELSE IF operandCount = 0 THEN <<def.Name>>
        ELSE IF operandCount = 1 THEN <<def.Name, " ">> \o FmtD(operands[1])
        ELSE <<"ERROR: unhandled operandCount for ", def.Name, "\n">>

-----------------------------------------------------------------------------
Init ==
    /\ Definitions = DefinitionsTable
    /\ call = [fn |-> "none"]
    /\ chunks = <<>>
    /\ ins = <<>>
    /\ i = 0
    /\ out = <<>>
    /\ pc = "build"
    /\ compiler = Nil
    /\ program = Nil
    /\ err = [set |-> FALSE]
    /\ bytecode = Nil

-----------------------------------------------------------------------------
(* Calls into package code, one at a time.                                 *)

\* the opcodes given to Make: the defined ones and one that is not
Opcodes == {OpConstant, OpAdd, 2}

OperandLists == UNION {[1..n -> OperandValues] : n \in 0..MaxOperands}

CallMake(op, operands) ==
    /\ call' = [fn |-> "Make", op |-> op, operands |-> operands,
                result |-> Make(op, operands)]
    /\ UNCHANGED <<Definitions, stringVars, compilerVars>>

\* ReadOperands(Definitions[op], Make(op, operands...)[1:])
CallReadOperands ==
    /\ call.fn = "Make"
    /\ call.op \in DOMAIN Definitions
    /\ ~call.result.panic
    /\ call' = [fn |-> "ReadOperands", op |-> call.op, operands |-> call.operands,
                made |-> call.result.bytes,
                result |-> ReadOperands(Definitions[call.op],
                                        SliceFrom(call.result.bytes, 1))]
    /\ UNCHANGED <<Definitions, stringVars, compilerVars>>

CallLookup(op) ==
    /\ call' = [fn |-> "Lookup", op |-> op, result |-> Lookup(op)]
    /\ UNCHANGED <<Definitions, stringVars, compilerVars>>

NextCode ==
    \/ \E op \in Opcodes, operands \in OperandLists : CallMake(op, operands)
    \/ CallReadOperands
    \/ \E op \in Byte : CallLookup(op)

Spec == Init /\ [][NextCode]_vars

-----------------------------------------------------------------------------
(* Instructions.String, one loop iteration at a time, on a stream put      *)
(* together from instructions made by Make and from raw bytes.             *)

\* the number of error lines Lookup's failure has put into a text
RECURSIVE ErrorCount(_)
ErrorCount(text) ==
    IF text = <<>> THEN 0
    ELSE (IF Head(text) = "ERROR: " THEN 1 ELSE 0) + ErrorCount(Tail(text))

\* the operand lists that match an opcode's arity, over StreamValues
MatchingOperands(op) == [1..Len(DefinitionsTable[op].OperandWidths) -> StreamValues]

\* concatInstructions: one more instruction made by Make
AppendMake(op, operands) ==
    /\ pc = "build"
    /\ Len(chunks) < MaxChunks
    /\ ~Make(op, operands).panic
    /\ chunks' = Append(chunks, [kind |-> "make", op |-> op, operands |-> operands,
                                 bytes |-> Make(op, operands).bytes])
    /\ ins' = ins \o Make(op, operands).bytes
    /\ UNCHANGED <<Definitions, call, i, out, pc, compilerVars>>

\* one more byte, not made by Make
AppendByte(b) ==
    /\ pc = "build"
    /\ Len(chunks) < MaxChunks
    /\ chunks' = Append(chunks, [kind |-> "raw", op |-> b, operands |-> <<>>,
                                 bytes |-> <<b>>])
    /\ ins' = ins \o <<b>>
    /\ UNCHANGED <<Definitions, call, i, out, pc, compilerVars>>

\* ins.String() is called: i := 0, out is empty
StringCall ==
    /\ pc = "build"
    /\ pc' = "loop"
    /\ i' = 0
    /\ out' = <<>>
    /\ UNCHANGED <<Definitions, call, chunks, ins, compilerVars>>

\* i += 1 + read
NextOffsetWithoutOpcode(offset, read) == offset + read

NextOffset(offset, read) == offset + 1 + read

\* the loop's condition fails: return out.String()
StringReturn ==
    /\ pc = "loop"
    /\ ~(i < Len(ins))
    /\ pc' = "done"
    /\ UNCHANGED <<Definitions, call, chunks, ins, i, out, compilerVars>>

\* an iteration where Lookup fails: an error line, then continue
StringError ==
    /\ pc = "loop"
    /\ i < Len(ins)
    /\ Lookup(ins[i + 1]).err # Nil
    /\ ErrorCount(out) < MaxErrorLines
    /\ out' = out \o <<"ERROR: ">> \o Lookup(ins[i + 1]).err.msg \o <<"\n">>
    /\ UNCHANGED <<Definitions, call, chunks, ins, i, pc, compilerVars>>

\* an iteration where Lookup succeeds and the operands are read
StringInstruction ==
    /\ pc = "loop"
    /\ i < Len(ins)
    /\ Lookup(ins[i + 1]).err = Nil
    /\ LET def == Lookup(ins[i + 1]).def
           got == ReadOperands(def, SliceFrom(ins, i + 1))
       IN  /\ ~got.panic
           /\ out' = out \o Fmt04d(i) \o <<" ">>
                         \o fmtInstruction(def, got.operands) \o <<"\n">>
           /\ i' = NextOffset(i, got.read)
    /\ UNCHANGED <<Definitions, call, chunks, ins, pc, compilerVars>>

\* an iteration where reading the operands indexes past the end of ins
StringPanic ==
    /\ pc = "loop"
    /\ i < Len(ins)
    /\ Lookup(ins[i + 1]).err = Nil
    /\ ReadOperands(Lookup(ins[i + 1]).def, SliceFrom(ins, i + 1)).panic
    /\ pc' = "panic"
    /\ UNCHANGED <<Definitions, call, chunks, ins, i, out, compilerVars>>

NextString ==
    \/ \E op \in DOMAIN DefinitionsTable :
           \E operands \in MatchingOperands(op) : AppendMake(op, operands)
    \/ \E b \in RawBytes : AppendByte(b)
    \/ StringCall
    \/ StringReturn
    \/ StringError
    \/ StringInstruction
    \/ StringPanic

SpecString == Init /\ [][NextString]_vars

-----------------------------------------------------------------------------
(* package compiler, driven as runCompilerTests drives it: New, Compile,   *)
(* Bytecode.                                                               *)

IntegerLiteral(v) == [kind |-> "IntegerLiteral", value |-> v]

InfixExpression(l, r) ==
    [kind |-> "InfixExpression", operator |-> "+", left |-> l, right |-> r]

\* the additions of integer literals nested at most d deep
RECURSIVE Expressions(_)
Expressions(d) ==
    IF d = 1 THEN {IntegerLiteral(v) : v \in IntLits}
    ELSE Expressions(d - 1)
             \cup {InfixExpression(l, r) : l, r \in Expressions(d - 1)}

\* parse(input) of an input that is one expression
Programs ==
    {[kind |-> "Program",
      statements |-> <<[kind |-> "ExpressionStatement", expression |-> e]>>] :
        e \in Expressions(MaxDepth)}

\* nodes of kinds the compilation rules do not name
OtherNodes ==
    {[kind |-> "Boolean", truth |-> b] : b \in BOOLEAN}
        \cup {[kind |-> "StringLiteral", text |-> t] : t \in {"", "a"}}

\* New()
New ==
    /\ compiler' = [instructions |-> <<>>, constants |-> <<>>]
    /\ program' = Nil
    /\ err' = [set |-> FALSE]
    /\ bytecode' = Nil
    /\ UNCHANGED <<Definitions, call, stringVars>>

\* err := compiler.Compile(node)
Compile(node) ==
    /\ compiler # Nil
    /\ ~err.set
    /\ program' = node
    /\ err' = [set |-> TRUE, value |-> Nil]
    /\ UNCHANGED <<Definitions, call, stringVars, compiler, bytecode>>

\* bytecode := compiler.Bytecode()
Bytecode ==
    /\ compiler # Nil
    /\ err.set
    /\ bytecode' = [Instructions |-> compiler.instructions,
                    Constants |-> compiler.constants]
    /\ UNCHANGED <<Definitions, call, stringVars, compiler, program, err>>

NextCompiler ==
    \/ New
    \/ \E node \in Programs \cup OtherNodes : Compile(node)
    \/ Bytecode

SpecCompiler == Init /\ [][NextCompiler]_vars

-----------------------------------------------------------------------------
(* Claims about Make, ReadOperands and Lookup, under Spec.                 *)

Arity(op) == Len(DefinitionsTable[op].OperandWidths)

Widths(op) == DefinitionsTable[op].OperandWidths

\* every value fits the width declared at its position
FitsWidths(operands, widths) ==
    \A k \in 1..Len(operands) : operands[k] \in 0..(256 ^ widths[k] - 1)

\* C3: for an opcode of the table and operand values that match its arity and
\* fit its widths, ReadOperands on the operand bytes of Make's instruction
\* returns exactly those values and the sum of the widths as the byte count.
C3_RoundTrip ==
    ( /\ call.fn = "ReadOperands"
      /\ Len(call.operands) = Arity(call.op)
      /\ FitsWidths(call.operands, Widths(call.op)) )
    => /\ ~call.result.panic
       /\ call.result.operands = call.operands
       /\ call.result.read = Sum(Widths(call.op))

C3_Witness ==
    /\ call.fn = "ReadOperands"
    /\ call.op = OpConstant
    /\ call.operands = <<65535>>
    /\ call.made = <<OpConstant, 255, 255>>
    /\ call.result.operands = <<65535>>
    /\ call.result.read = 2

\* C6: Make with a number of operands other than the opcode's arity fails
\* explicitly: it returns no instruction at all.
C6_ArityMismatchFails ==
    ( /\ call.fn = "Make"
      /\ call.op \in DOMAIN DefinitionsTable
      /\ Len(call.operands) # Arity(call.op) )
    => call.result.panic

\* C7: Make(OpConstant, v) with v outside 0..65535 is rejected: it yields no
\* instruction whose two operand bytes decode to a value other than v.
C7_OutOfRangeRejected ==
    ( /\ call.fn = "Make"
      /\ call.op = OpConstant
      /\ Len(call.operands) = 1
      /\ call.operands[1] \notin 0..65535 )
    => \/ call.result.panic
       \/ /\ Len(call.result.bytes) = 3
          /\ call.result.bytes[2] * 256 + call.result.bytes[3] = call.operands[1]

\* the place, counted from 1, of byte j of operand k in an instruction
BytePlace(widths, k, j) == 1 + Sum(SubSeq(widths, 1, k - 1)) + j

\* C8: for an opcode of the table and arity-matching operands, Make returns
\* 1 + sum(OperandWidths) bytes, the opcode first, then the operands in the
\* declared order, each in its declared width, most significant byte first.
C8_MakeLayout ==
    ( /\ call.fn = "Make"
      /\ call.op \in DOMAIN DefinitionsTable
      /\ Len(call.operands) = Arity(call.op) )
    => /\ ~call.result.panic
       /\ Len(call.result.bytes) = 1 + Sum(Widths(call.op))
       /\ call.result.bytes[1] = call.op
       /\ \A k \in 1..Arity(call.op) : \A j \in 1..Widths(call.op)[k] :
              call.result.bytes[BytePlace(Widths(call.op), k, j)]
                  = (call.operands[k] \div (256 ^ (Widths(call.op)[k] - j))) % 256

C8_Witness ==
    /\ call.fn = "Make"
    /\ call.op = OpConstant
    /\ call.operands = <<258>>
    /\ call.result.bytes = <<OpConstant, 1, 2>>

C9_LookupResult ==
    call.fn = "Lookup" =>
        IF call.op \in DOMAIN DefinitionsTable
        THEN /\ call.result.def = DefinitionsTable[call.op]
             /\ call.result.err = Nil
        ELSE /\ call.result.def = Nil
             /\ call.result.err # Nil
             /\ Head(call.result.err.msg) = "opcode "
             /\ call.result.err.msg[Len(call.result.err.msg)] = " undefined"

\* C9: for every byte b, Lookup(b) returns the table's Definition and a nil
\* error when b is a defined opcode, a nil Definition and an "opcode
\* undefined" error otherwise; and the table is never changed.
C9_Lookup == [](C9_LookupResult) /\ [][Definitions' = Definitions]_vars

C9_Witness ==
    /\ call.fn = "Lookup"
    /\ call.op = 255
    /\ call.result.def = Nil
    /\ call.result.err = [msg |-> <<"opcode ", "2", "5", "5", " undefined">>]

-----------------------------------------------------------------------------
(* Claims about Instructions.String, under SpecString.                     *)

\* the stream is a concatenation of results of Make
EncoderBuilt == \A k \in 1..Len(chunks) : chunks[k].kind = "make"

\* instructions made by Make, then one byte that is no defined opcode
EncoderBuiltThenUnknownByte ==
    /\ Len(chunks) >= 1
    /\ \A k \in 1..(Len(chunks) - 1) : chunks[k].kind = "make"
    /\ chunks[Len(chunks)].kind = "raw"
    /\ chunks[Len(chunks)].op \notin DOMAIN DefinitionsTable

RECURSIVE TotalLen(_)
TotalLen(cs) == IF cs = <<>> THEN 0 ELSE Len(Head(cs).bytes) + TotalLen(Tail(cs))

\* the byte length of all the pieces before piece k
ChunkOffset(k) == TotalLen(SubSeq(chunks, 1, k - 1))

\* a text cut at its "\n" tokens
RECURSIVE SplitLines(_, _)
SplitLines(text, current) ==
    IF text = <<>> THEN (IF current = <<>> THEN <<>> ELSE <<current>>)
    ELSE IF Head(text) = "\n" THEN <<current>> \o SplitLines(Tail(text), <<>>)
    ELSE SplitLines(Tail(text), Append(current, Head(text)))

Lines(text) == SplitLines(text, <<>>)

\* the tokens of a line before its first space
RECURSIVE UpToSpace(_)
UpToSpace(line) ==
    IF line = <<>> \/ Head(line) = " " THEN <<>>
    ELSE <<Head(line)>> \o UpToSpace(Tail(line))

DigitTokens == {Digit(d) : d \in 0..9}

\* the number a sequence of digit tokens writes, -1 if it writes none
RECURSIVE DecimalValue(_)
DecimalValue(tokens) ==
    IF tokens = <<>> THEN 0
    ELSE IF DecimalValue(SubSeq(tokens, 1, Len(tokens) - 1)) < 0
            \/ tokens[Len(tokens)] \notin DigitTokens
    THEN -1
    ELSE DecimalValue(SubSeq(tokens, 1, Len(tokens) - 1)) * 10
             + (CHOOSE d \in 0..9 : Digit(d) = tokens[Len(tokens)])

\* the offset label of a line
LabelValue(line) ==
    IF UpToSpace(line) = <<>> THEN -1 ELSE DecimalValue(UpToSpace(line))

\* the opcode name of a line: the token after the label's space
LineName(line) ==
    IF Len(line) >= Len(UpToSpace(line)) + 2
    THEN line[Len(UpToSpace(line)) + 2] ELSE ""

\* C4: on a stream of encoder-built instructions followed by one byte that is
\* no defined opcode, the scan terminates: every iteration of the loop moves
\* the offset forward (an iteration that leaves it in place repeats forever,
\* the stream being the same), and the finished output holds an error line.
C4_ScanTerminates ==
    /\ [][(EncoderBuiltThenUnknownByte /\ pc = "loop" /\ pc' = "loop") => i' > i]_vars
    /\ []((EncoderBuiltThenUnknownByte /\ pc = "done") => ErrorCount(out) >= 1)

\* C5: on a stream that is a concatenation of results of Make, the scan
\* writes one line per instruction, in stream order, each labelled with the
\* byte length of the instructions before it, and it ends with the offset
\* equal to the length of the stream.
C5_OneLinePerInstruction ==
    (EncoderBuilt /\ pc # "build") =>
        /\ pc # "panic"
        /\ ErrorCount(out) = 0
        /\ Len(Lines(out)) <= Len(chunks)
        /\ i = ChunkOffset(Len(Lines(out)) + 1)
        /\ \A k \in 1..Len(Lines(out)) :
               /\ LabelValue(Lines(out)[k]) = ChunkOffset(k)
               /\ LineName(Lines(out)[k]) = DefinitionsTable[chunks[k].op].Name
        /\ pc = "done" => /\ Len(Lines(out)) = Len(chunks)
                          /\ i = Len(ins)

C5_Witness ==
    /\ pc = "done"
    /\ EncoderBuilt
    /\ ins = <<OpConstant, 0, 0, OpConstant, 1, 2, OpAdd>>
    /\ i = 7
    /\ out = <<"0", "0", "0", "0", " ", "OpConstant", " ", "0", "\n",
               "0", "0", "0", "3", " ", "OpConstant", " ", "2", "5", "8", "\n",
               "0", "0", "0", "6", " ", "OpAdd", "\n">>

\* C10: while every byte met at an instruction position is a defined opcode,
\* also when the stream ends inside the operands of its last instruction,
\* the scan reads no index outside the stream and the offset stays within
\* the length of the stream.
C10_ReadsInsideStream ==
    (pc # "build" /\ ErrorCount(out) = 0) => (pc # "panic" /\ i <= Len(ins))

-----------------------------------------------------------------------------
(* Claims about the compiler, under SpecCompiler.                          *)

\* the literals of an expression, in source order
RECURSIVE LiteralsOf(_)
LiteralsOf(e) ==
    IF e.kind = "IntegerLiteral" THEN <<e.value>>
    ELSE LiteralsOf(e.left) \o LiteralsOf(e.right)

\* left operand, right operand, then the operator; base is the next free index
RECURSIVE PostOrder(_, _)
PostOrder(e, base) ==
    IF e.kind = "IntegerLiteral" THEN Make(OpConstant, <<base>>).bytes
    ELSE PostOrder(e.left, base)
             \o PostOrder(e.right, base + Len(LiteralsOf(e.left)))
             \o Make(OpAdd, <<>>).bytes

\* C1: for a program that is an addition of integer literals, Compile returns
\* no error and Bytecode() holds the literals in source order as constants
\* and the instructions OpConstant left, OpConstant right, OpAdd.
C1_AdditionCompiled ==
    ( /\ bytecode # Nil
      /\ program \in Programs
      /\ program.statements[1].expression.kind = "InfixExpression" )
    => /\ err.value = Nil
       /\ bytecode.Constants = LiteralsOf(program.statements[1].expression)
       /\ bytecode.Instructions = PostOrder(program.statements[1].expression, 0)

\* C2: Compile of a node of a kind that has no compilation rule returns an
\* error.
C2_UnknownNodeFails ==
    (err.set /\ program \in OtherNodes) => err.value # Nil

====
